---- MODULE Spec2Model ----
(***************************************************************************)
(* Model of the permission scoring engine of aws-sso-report:               *)
(*   src/src/data_models.py              PermissionScores, AccessLevel     *)
(*   src/src/permission_scoring_config.py PermissionScoringConfig          *)
(*   src/src/permission_analyzer_v2.py    PermissionAnalyzerV2             *)
(*                                                                         *)
(* Python values are records tagged with their type in field t.  A Python  *)
(* str is a sequence of tokens (each token a fixed chunk of characters),   *)
(* so that splitting on ":", lower-casing and substring tests are          *)
(* computed and not assumed.  A call that raises yields [exc |-> name];    *)
(* a call that returns yields a record whose exc field is "none".          *)
(***************************************************************************)
EXTENDS Integers, Sequences, FiniteSets, TLC

VARIABLES config, cache, backend, call, returned

vars == <<config, cache, backend, call, returned>>

(***************************************************************************)
(* Bounds of the model.                                                    *)
(***************************************************************************)
MaxScore == 10
MaxActions == 2
MaxManaged == 2
MaxPages == 2

(***************************************************************************)
(* Python values.                                                          *)
(***************************************************************************)
PyStr(s) == [t |-> "str", s |-> s]
PyInt == [t |-> "int"]
PyNone == [t |-> "NoneType"]
PyList(items) == [t |-> "list", items |-> items]
PyDict(d) == [t |-> "dict", d |-> d]

EmptyDict == <<>>

Raise(e) == [exc |-> e]
Raised(r) == r.exc # "none"

\* dict.get(key, default)
Get(d, k, default) == IF k \in DOMAIN d THEN d[k] ELSE default

Max(a, b) == IF a >= b THEN a ELSE b

\* str.lower() on one token; tokens without upper-case letters are unchanged
LowerTok(tok) ==
  CASE tok = "S3" -> "s3"
    [] tok = "Get" -> "get"
    [] tok = "Put" -> "put"
    [] tok = "Delete" -> "delete"
    [] tok = "Create" -> "create"
    [] tok = "Pass" -> "pass"
    [] tok = "Tag" -> "tag"
    [] tok = "Describe" -> "describe"
    [] tok = "Decrypt" -> "decrypt"
    [] tok = "Object" -> "object"
    [] tok = "Bucket" -> "bucket"
    [] tok = "Role" -> "role"
    [] tok = "Volume" -> "volume"
    [] tok = "Volumes" -> "volumes"
    [] tok = "Allow" -> "allow"
    [] tok = "ALLOW" -> "allow"
    [] tok = "Deny" -> "deny"
    [] tok = "Disabled" -> "disabled"
    [] tok = "DISABLED" -> "disabled"
    [] tok = "Enabled" -> "enabled"
    [] tok = "Unknown" -> "unknown"
    [] OTHER -> tok

Lower(s) == [i \in DOMAIN s |-> LowerTok(s[i])]

\* needle in hay, for two str
Contains(hay, needle) ==
  \E i \in 0..(Len(hay) - Len(needle)) :
    \A j \in 1..Len(needle) : hay[i + j] = needle[j]

\* position of the first token tok in s, 0 when absent
FirstIndex(s, tok) ==
  IF \E i \in DOMAIN s : s[i] = tok
  THEN CHOOSE i \in DOMAIN s : s[i] = tok /\ \A j \in 1..(i - 1) : s[j] # tok
  ELSE 0

(***************************************************************************)
(* data_models.py                                                          *)
(***************************************************************************)
\* PermissionScores(read_score, write_score, admin_score, justification)
PermissionScores(r, w, a, j) ==
  [read_score |-> r, write_score |-> w, admin_score |-> a, justification |-> j]

ZeroScores == PermissionScores(0, 0, 0, <<>>)

\* get_risk_level with the HIGH boundary written as admin_score > 5
get_risk_level_strict(scores) ==
  IF scores.admin_score >= 8 THEN "CRITICAL"
  ELSE IF scores.admin_score > 5 \/ scores.write_score >= 8 THEN "HIGH"
  ELSE IF scores.write_score >= 5 THEN "MEDIUM"
  ELSE IF scores.read_score >= 5 THEN "LOW"
  ELSE "MINIMAL"

\* PermissionScores.get_risk_level
get_risk_level(scores) ==
  IF scores.admin_score >= 8 THEN "CRITICAL"
  ELSE IF scores.admin_score >= 5 \/ scores.write_score >= 8 THEN "HIGH"
  ELSE IF scores.write_score >= 5 THEN "MEDIUM"
  ELSE IF scores.read_score >= 5 THEN "LOW"
  ELSE "MINIMAL"

\* AccessLevel.<NAME>.value
AccessLevelValue(level) ==
  CASE level = "READ_ONLY" -> "Read Only"
    [] level = "READ_WRITE" -> "Read Write"
    [] level = "FULL_ADMIN" -> "Admin"
    [] level = "NO_ACCESS" -> "No access"
    [] level = "UNKNOWN" -> "unknown"

(***************************************************************************)
(* The rulebook (YAML document) and its source.  Weights are in tenths:    *)
(* 10 is 1.0, 7 is 0.7.  A regular expression is modelled by its kind      *)
(* ("prefix": literal at the start, "contains": .*literal.*, "invalid":    *)
(* does not compile) and its literal.                                      *)
(***************************************************************************)
TopKeys ==
  {"scoring_rules", "services", "managed_policies", "patterns", "weights",
   "special_actions"}

Restrict(f, K) == [k \in K |-> f[k]]

Pattern(kind, lit) == [re |-> kind, lit |-> lit]

Item(k, v) == [key |-> k, val |-> v]

Triple(r, w, a) == [read_score |-> r, write_score |-> w, admin_score |-> a]

\* _get_default_config with an all-zero default triple
_get_default_config_zeroDefaults ==
  [scoring_rules |->
     [risk_levels |->
        [minimal |-> 1, low |-> 3, medium |-> 5, high |-> 8, critical |-> 10],
      defaults |-> Triple(0, 0, 0)],
   services |-> EmptyDict,
   managed_policies |->
     << Item(<<"critical">>, PyList(<<>>)), Item(<<"high">>, PyList(<<>>)),
        Item(<<"medium">>, PyList(<<>>)), Item(<<"low">>, PyList(<<>>)) >>,
   patterns |-> [critical |-> <<>>, high |-> <<>>, medium |-> <<>>, low |-> <<>>],
   weights |-> [service_specific |-> 10, pattern_based |-> 7, managed_policy |-> 12]]

\* PermissionScoringConfig._get_default_config
_get_default_config ==
  [scoring_rules |->
     [risk_levels |->
        [minimal |-> 1, low |-> 3, medium |-> 5, high |-> 8, critical |-> 10],
      defaults |-> Triple(2, 5, 0)],
   services |-> EmptyDict,
   managed_policies |->
     << Item(<<"critical">>, PyList(<<>>)), Item(<<"high">>, PyList(<<>>)),
        Item(<<"medium">>, PyList(<<>>)), Item(<<"low">>, PyList(<<>>)) >>,
   patterns |-> [critical |-> <<>>, high |-> <<>>, medium |-> <<>>, low |-> <<>>],
   weights |-> [service_specific |-> 10, pattern_based |-> 7, managed_policy |-> 12]]

\* Action strings used by the rulebooks and the callers
ActStar == <<"*">>
ActStarStar == <<"*", ":", "*">>
ActS3Get == <<"s3", ":", "Get", "Object">>
ActS3GetUpper == <<"S3", ":", "Get", "Object">>
ActS3Put == <<"s3", ":", "Put", "Object">>
ActS3DeleteBucket == <<"s3", ":", "Delete", "Bucket">>
ActS3Tag == <<"s3", ":", "Tag", "Object">>
ActIamCreateRole == <<"iam", ":", "Create", "Role">>
ActIamPassRole == <<"iam", ":", "Pass", "Role">>
ActKmsDecrypt == <<"kms", ":", "Decrypt">>
ActEc2Delete == <<"ec2", ":", "Delete", "Volume">>
ActEc2Describe == <<"ec2", ":", "Describe", "Volumes">>
ActNoColon == <<"Describe">>
ActIamCreateDescribe == <<"iam", ":", "Create", "Describe">>

Entry(tier, description) == [risk_level |-> tier, description |-> description]

\* A rulebook in the current format: explicit action and managed-policy entries
FullDoc ==
  [scoring_rules |->
     [risk_levels |->
        [minimal |-> 1, low |-> 3, medium |-> 5, high |-> 8, critical |-> 10],
      defaults |-> Triple(2, 5, 0)],
   special_actions |->
     (ActStar :> Entry("critical", <<"Full access">>)) @@
     (ActStarStar :> Entry("critical", <<"All services">>)),
   services |->
     (<<"s3">> :>
        [actions |->
           (ActS3Get :> Entry("low", <<"Read objects">>)) @@
           (ActS3Put :> Entry("medium", <<"Write objects">>)) @@
           (ActS3DeleteBucket :> Entry("high", <<"Delete a bucket">>)) @@
           (ActS3Tag :> [risk_level |-> "minimal"])]) @@
     (<<"iam">> :>
        [actions |->
           (ActIamCreateRole :> Entry("critical", <<"Create a role">>)) @@
           (ActIamPassRole :> [description |-> <<"Pass a role">>])]) @@
     (<<"kms">> :>
        [actions |-> (ActKmsDecrypt :> Entry("low", <<"Decrypt data">>))]),
   managed_policies |->
     << Item(<<"AdministratorAccess">>, PyDict(Triple(10, 10, 10))),
        Item(<<"ReadOnlyAccess">>, PyDict(Triple(3, 0, 0))),
        Item(<<"PowerUserAccess">>, PyDict([read_score |-> 8, write_score |-> 8])) >>,
   patterns |->
     [critical |-> << Pattern("prefix", <<"iam", ":", "Create">>) >>,
      high |-> << Pattern("contains", <<":", "Delete">>) >>,
      medium |-> << Pattern("contains", <<":", "Put">>) >>,
      low |-> << Pattern("contains", <<"describe">>),
                 Pattern("contains", <<":", "Get">>) >>],
   weights |-> [service_specific |-> 10, pattern_based |-> 7, managed_policy |-> 12]]

\* A rulebook in the legacy format: per-tier lists of actions and of policy names
LegacyDoc ==
  [scoring_rules |->
     [risk_levels |->
        [minimal |-> 1, low |-> 3, medium |-> 5, high |-> 8, critical |-> 10],
      defaults |-> Triple(2, 5, 0)],
   services |->
     (<<"s3">> :>
        [critical_actions |-> <<>>,
         high_risk_actions |-> << ActS3DeleteBucket >>,
         medium_risk_actions |-> << ActS3Put >>,
         read_only_actions |-> << ActS3Get >>]) @@
     (<<"iam">> :> [critical_actions |-> << ActIamCreateRole, ActIamPassRole >>]),
   managed_policies |->
     << Item(<<"critical">>, PyList(<< <<"AdministratorAccess">> >>)),
        Item(<<"high">>, PyList(<< <<"PowerUserAccess">> >>)),
        Item(<<"medium">>, PyList(<< <<"S3", "FullAccess">> >>)),
        Item(<<"low">>, PyList(<< <<"ReadOnlyAccess">> >>)) >>,
   patterns |->
     [critical |-> <<>>,
      high |-> << Pattern("contains", <<":", "Delete">>) >>,
      medium |-> <<>>,
      low |-> << Pattern("contains", <<":", "Describe">>) >>],
   weights |-> [service_specific |-> 7, pattern_based |-> 7, managed_policy |-> 12]]

\* FullDoc with one pattern that is not a valid regular expression
BadRegexDoc ==
  [FullDoc EXCEPT !["patterns"] =
     [critical |-> <<>>, high |-> << Pattern("invalid", <<"(">>) >>,
      medium |-> <<>>, low |-> <<>>]]

\* What yaml.safe_load can return for a readable file
Docs ==
  {PyNone, PyDict(LegacyDoc), PyDict(BadRegexDoc)}
    \cup {PyDict(Restrict(FullDoc, K)) : K \in SUBSET TopKeys}

\* The states of the rulebook source
Sources ==
  {[state |-> "missing"], [state |-> "unreadable"], [state |-> "bad_yaml"]}
    \cup {[state |-> "doc", doc |-> d] : d \in Docs}

(***************************************************************************)
(* permission_scoring_config.py: construction                              *)
(***************************************************************************)
\* PermissionScoringConfig._load_config: open() and yaml.safe_load() under
\* except FileNotFoundError / except yaml.YAMLError
_load_config(source) ==
  CASE source.state = "missing" -> [exc |-> "none", value |-> PyDict(_get_default_config)]
    [] source.state = "bad_yaml" -> [exc |-> "none", value |-> PyDict(_get_default_config)]
    [] source.state = "unreadable" -> Raise("PermissionError")
    [] source.state = "doc" -> [exc |-> "none", value |-> source.doc]

\* re.compile(pattern, re.IGNORECASE)
re_compile(pattern) == Pattern(pattern.re, Lower(pattern.lit))

\* compiled_pattern.match(action)
re_match(compiled, action) ==
  LET a == Lower(action)
  IN CASE compiled.re = "prefix" ->
            /\ Len(compiled.lit) <= Len(a)
            /\ SubSeq(a, 1, Len(compiled.lit)) = compiled.lit
       [] compiled.re = "contains" -> Contains(a, compiled.lit)

\* PermissionScoringConfig._compile_patterns
_compile_patterns(cfg) ==
  IF cfg.t # "dict" THEN Raise("AttributeError")
  ELSE LET patterns == Get(cfg.d, "patterns", EmptyDict)
       IN IF \E k \in DOMAIN patterns :
               \E i \in DOMAIN patterns[k] : patterns[k][i].re = "invalid"
          THEN Raise("re.error")
          ELSE [exc |-> "none",
                value |-> [k \in DOMAIN patterns |->
                             [i \in DOMAIN patterns[k] |-> re_compile(patterns[k][i])]]]

\* PermissionScoringConfig.__init__
PermissionScoringConfig(source) ==
  LET loaded == _load_config(source)
  IN IF Raised(loaded) THEN loaded
     ELSE LET compiled == _compile_patterns(loaded.value)
          IN IF Raised(compiled) THEN compiled
             ELSE [exc |-> "none", config |-> loaded.value.d,
                   _pattern_cache |-> compiled.value]

(***************************************************************************)
(* permission_scoring_config.py: scoring                                   *)
(***************************************************************************)
Tiers == <<"critical", "high", "medium", "low">>

IsTier(name) == \E i \in 1..4 : Tiers[i] = name

\* str.upper() of a tier name
Upper(name) ==
  CASE name = "critical" -> "CRITICAL"
    [] name = "high" -> "HIGH"
    [] name = "medium" -> "MEDIUM"
    [] name = "low" -> "LOW"
    [] name = "minimal" -> "MINIMAL"
    [] OTHER -> name

\* int(base_score * weight), the weight in tenths
Weighted(base_score, weight) == (base_score * weight) \div 10

\* TierShape with the low tier given the write score of the medium tier
TierShape_lowWrites(tier, w) ==
  CASE tier = "critical" -> <<w, w, w>>
    [] tier = "high" -> <<w, w, w \div 2>>
    [] tier = "medium" -> <<w \div 2, w, 0>>
    [] tier = "low" -> <<w, w, 0>>

\* The (read, write, admin) returned for a tier and its weighted score
TierShape(tier, w) ==
  CASE tier = "critical" -> <<w, w, w>>
    [] tier = "high" -> <<w, w, w \div 2>>
    [] tier = "medium" -> <<w \div 2, w, 0>>
    [] tier = "low" -> <<w, 0, 0>>

ScoreResult(triple, tier, justification) ==
  [exc |-> "none", read_score |-> triple[1], write_score |-> triple[2],
   admin_score |-> triple[3], risk_level |-> tier,
   justification |-> justification]

\* The last index in place of the first
First_last(S) == CHOOSE i \in S : \A j \in S : i >= j

\* First index of a non-empty set of indices
First(S) == CHOOSE i \in S : \A j \in S : i <= j

\* PermissionScoringConfig.score_managed_policy
score_managed_policy(self, policy_name) ==
  LET managed_policies == Get(self.config, "managed_policies", <<>>)
      direct == {i \in DOMAIN managed_policies :
                   managed_policies[i].key = policy_name}
      TierOfKey(k) == IF Len(k) = 1 THEN k[1] ELSE ""
      legacy == {i \in DOMAIN managed_policies :
                   /\ managed_policies[i].val.t = "list"
                   /\ \E p \in DOMAIN managed_policies[i].val.items :
                        Contains(policy_name, managed_policies[i].val.items[p])
                   /\ IsTier(TierOfKey(managed_policies[i].key))}
  IN IF direct # {}
     THEN LET policy_config == managed_policies[First(direct)].val
          IN IF policy_config.t # "dict" THEN Raise("AttributeError")
             ELSE [exc |-> "none",
                   read_score |-> Get(policy_config.d, "read_score", 2),
                   write_score |-> Get(policy_config.d, "write_score", 5),
                   admin_score |-> Get(policy_config.d, "admin_score", 0)]
     ELSE IF "scoring_rules" \notin DOMAIN self.config THEN Raise("KeyError")
     ELSE LET risk_levels == self.config["scoring_rules"]["risk_levels"]
              defaults == self.config["scoring_rules"]["defaults"]
          IN IF legacy # {}
             THEN LET risk_level == TierOfKey(managed_policies[First(legacy)].key)
                      score == Get(risk_levels, risk_level, 5)
                  IN CASE risk_level = "critical" ->
                            [exc |-> "none"] @@ Triple(score, score, score)
                       [] risk_level = "high" ->
                            [exc |-> "none"] @@ Triple(score, score, score \div 2)
                       [] risk_level = "medium" ->
                            [exc |-> "none"] @@ Triple(score, score, 0)
                       [] risk_level = "low" ->
                            [exc |-> "none"] @@ Triple(score, 0, 0)
             ELSE [exc |-> "none"] @@ defaults

\* PermissionScoringConfig._score_special_action
_score_special_action(self, action, action_config) ==
  IF "scoring_rules" \notin DOMAIN self.config THEN Raise("KeyError")
  ELSE LET risk_levels == self.config["scoring_rules"]["risk_levels"]
           risk_name == Get(action_config, "risk_level", "critical")
           description == Get(action_config, "description",
                              <<"Special action ">> \o action)
           base_score == Get(risk_levels, risk_name, 10)
           justification ==
             IF action = <<"*">>
             THEN <<"Full administrative access",
                    ": Complete control over all AWS services and resources">>
             ELSE IF action = <<"*", ":", "*">>
             THEN <<"Wildcard access",
                    ": Unrestricted permissions across all AWS services">>
             ELSE <<"Special permission", ": ">> \o description
       IN ScoreResult(<<base_score, base_score, base_score>>, risk_name,
                      justification)

\* PermissionScoringConfig._score_by_pattern
_score_by_pattern(self, action) ==
  IF "scoring_rules" \notin DOMAIN self.config \/ "weights" \notin DOMAIN self.config
  THEN Raise("KeyError")
  ELSE LET risk_levels == self.config["scoring_rules"]["risk_levels"]
           weight == self.config["weights"]["pattern_based"]
           patterns(tier) == Get(self._pattern_cache, tier, <<>>)
           hit == {i \in 1..4 :
                     \E p \in DOMAIN patterns(Tiers[i]) :
                       re_match(patterns(Tiers[i])[p], action)}
           defaults == self.config["scoring_rules"]["defaults"]
       IN IF hit # {}
          THEN LET risk_level == Tiers[First(hit)]
                   base_score == Get(risk_levels, risk_level, 5)
                   weighted_score == Weighted(base_score, weight)
                   tail ==
                     CASE risk_level = "critical" ->
                            ". CRITICAL: Pattern indicates high-risk administrative action."
                       [] risk_level = "high" ->
                            ". HIGH: Pattern indicates significant write/modify permissions."
                       [] risk_level = "medium" ->
                            ". MEDIUM: Pattern indicates standard write operations."
                       [] risk_level = "low" ->
                            ". LOW: Pattern indicates read-only operations."
               IN ScoreResult(TierShape(risk_level, weighted_score), risk_level,
                    <<"Pattern-based scoring", ": ", "Action ", "'">> \o action
                      \o <<"'", " matches ", Upper(risk_level), " risk pattern. Score",
                           ": ", ToString(base_score), " (weighted", ": ",
                           ToString(weighted_score), ")", tail>>)
          ELSE ScoreResult(<<defaults.read_score, defaults.write_score,
                             defaults.admin_score>>, "unknown",
                    <<"Unknown action", ": ", "'">> \o action
                      \o <<"'", " - using default risk assessment">>)

\* PermissionScoringConfig._score_service_action
_score_service_action(self, service, full_action, service_config) ==
  IF "scoring_rules" \notin DOMAIN self.config \/ "weights" \notin DOMAIN self.config
  THEN Raise("KeyError")
  ELSE LET risk_levels == self.config["scoring_rules"]["risk_levels"]
           weight == self.config["weights"]["service_specific"]
           actions == Get(service_config, "actions", EmptyDict)
           action_config == actions[full_action]
           risk_name == Get(action_config, "risk_level", "medium")
           description == Get(action_config, "description",
                              <<"Action ">> \o full_action)
           LegacyKeys == <<"critical_actions", "high_risk_actions",
                           "medium_risk_actions", "read_only_actions">>
           actions_list(i) == Get(service_config, LegacyKeys[i], <<>>)
           legacy == {i \in 1..4 :
                        \E k \in DOMAIN actions_list(i) :
                          actions_list(i)[k] = full_action}
       IN IF full_action \in DOMAIN actions /\ IsTier(risk_name)
          THEN LET base_score == Get(risk_levels, risk_name, 5)
                   weighted_score == Weighted(base_score, weight)
               IN ScoreResult(TierShape(risk_name, weighted_score), risk_name,
                    description \o <<" (Risk", ": ", Upper(risk_name), ")">>
                      \o (IF risk_name = "low"
                          THEN <<". LOW", ": ",
                                 "Read-only access - minimal security risk.">>
                          ELSE <<>>))
          ELSE IF legacy # {}
          THEN LET risk_level == LegacyKeys[First(legacy)]
                   risk_name2 == Tiers[First(legacy)]
                   base_score == Get(risk_levels, risk_name2, 5)
                   weighted_score == Weighted(base_score, weight)
                   tail ==
                     CASE risk_name2 = "critical" ->
                            "High-risk action requiring immediate attention."
                       [] risk_name2 = "high" -> "Significant security implications."
                       [] risk_name2 = "medium" -> "Moderate security risk."
                       [] risk_name2 = "low" -> "Limited security impact."
               IN ScoreResult(TierShape(risk_name2, weighted_score), risk_name2,
                    <<"Legacy service configuration", ": ", "Action found in ",
                      risk_level, " list. Risk level", ": ", Upper(risk_name2),
                      " (score", ": ", ToString(base_score), ")", ". ",
                      Upper(risk_name2), ": ", tail>>)
          ELSE _score_by_pattern(self, full_action)

\* PermissionScoringConfig.score_action
score_action(self, action) ==
  LET special_actions == Get(self.config, "special_actions", EmptyDict)
  IN IF action.t \in {"list", "dict"} THEN Raise("TypeError")
     ELSE IF action.t # "str" THEN Raise("TypeError")
     ELSE IF action.s \in DOMAIN special_actions
     THEN _score_special_action(self, action.s, special_actions[action.s])
     ELSE IF FirstIndex(action.s, ":") = 0
     THEN _score_by_pattern(self, action.s)
     ELSE LET colon == FirstIndex(action.s, ":")
              service == Lower(SubSeq(action.s, 1, colon - 1))
              services == Get(self.config, "services", EmptyDict)
          IN IF service \in DOMAIN services
             THEN _score_service_action(self, service, action.s, services[service])
             ELSE _score_by_pattern(self, action.s)

\* "; ".join(parts) and ", ".join(parts)
RECURSIVE Join(_, _)
Join(parts, sep) ==
  IF Len(parts) = 0 THEN <<>>
  ELSE IF Len(parts) = 1 THEN parts[1]
  ELSE parts[1] \o <<sep>> \o Join(Tail(parts), sep)

\* ActionsStep assigning the scores of the action in place of taking the maximum
ActionsStep_assign(prev, action, s) ==
  IF Raised(s) THEN Raise(s.exc)
  ELSE [exc |-> "none",
        read_score |-> s.read_score,
        write_score |-> s.write_score,
        admin_score |-> s.admin_score,
        has_admin |-> prev.has_admin \/ s.admin_score > 0,
        has_write |-> prev.has_write \/ s.write_score > 0,
        high_risk_actions |->
          IF s.risk_level \in {"critical", "high"}
          THEN Append(prev.high_risk_actions, action)
          ELSE prev.high_risk_actions,
        justifications |->
          Append(prev.justifications, action.s \o <<": ">> \o s.justification)]

\* ActionsStep listing a high-risk action once however often it occurs
ActionsStep_dedup(prev, action, s) ==
  IF Raised(s) THEN Raise(s.exc)
  ELSE [exc |-> "none",
        read_score |-> Max(prev.read_score, s.read_score),
        write_score |-> Max(prev.write_score, s.write_score),
        admin_score |-> Max(prev.admin_score, s.admin_score),
        has_admin |-> prev.has_admin \/ s.admin_score > 0,
        has_write |-> prev.has_write \/ s.write_score > 0,
        high_risk_actions |->
          IF /\ s.risk_level \in {"critical", "high"}
             /\ \A i \in DOMAIN prev.high_risk_actions :
                  prev.high_risk_actions[i] # action
          THEN Append(prev.high_risk_actions, action)
          ELSE prev.high_risk_actions,
        justifications |->
          Append(prev.justifications, action.s \o <<": ">> \o s.justification)]

\* The body of `for action in actions`: prev is the state of the loop before
\* the iteration and s what score_action returned for the action
ActionsStep(prev, action, s) ==
  IF Raised(s) THEN Raise(s.exc)
  ELSE [exc |-> "none",
        read_score |-> Max(prev.read_score, s.read_score),
        write_score |-> Max(prev.write_score, s.write_score),
        admin_score |-> Max(prev.admin_score, s.admin_score),
        has_admin |-> prev.has_admin \/ s.admin_score > 0,
        has_write |-> prev.has_write \/ s.write_score > 0,
        high_risk_actions |->
          IF s.risk_level \in {"critical", "high"}
          THEN Append(prev.high_risk_actions, action)
          ELSE prev.high_risk_actions,
        justifications |->
          Append(prev.justifications, action.s \o <<": ">> \o s.justification)]

ActionsNext(self, prev, action) ==
  IF Raised(prev) THEN prev
  ELSE ActionsStep(prev, action, score_action(self, action))

\* The loop of analyze_actions after its first n iterations
RECURSIVE ActionsLoop(_, _, _)
ActionsLoop(self, actions, n) ==
  IF n = 0
  THEN [exc |-> "none", read_score |-> 0, write_score |-> 0, admin_score |-> 0,
        high_risk_actions |-> <<>>, has_admin |-> FALSE, has_write |-> FALSE,
        justifications |-> <<>>]
  ELSE ActionsNext(self, ActionsLoop(self, actions, n - 1), actions[n])

\* analyze_actions, "Determine access level", from the state of the loop
DetermineAccessLevel(loop) ==
  IF loop.has_admin \/ loop.admin_score >= 5 THEN "FULL_ADMIN"
  ELSE IF loop.has_write \/ loop.write_score >= 5 THEN "READ_WRITE"
  ELSE IF loop.read_score > 0 THEN "READ_ONLY"
  ELSE "UNKNOWN"

\* The composite justification built at the end of analyze_actions
ActionsJustification(actions, loop, access_level, n) ==
  <<"Analysis of ", ToString(Len(actions)), " actions. Access level", ": ",
    AccessLevelValue(access_level), ". ", "High-risk actions", ": ",
    ToString(Len(loop.high_risk_actions)), ". ", "Detailed breakdown", ": ">>
    \o Join(SubSeq(loop.justifications, 1, IF n > 5 THEN 5 ELSE n), "; ")
    \o (IF n > 5 THEN <<" ... and ", ToString(n - 5), " more actions.">> ELSE <<>>)

\* What analyze_actions returns once the loop has ended in state loop
ActionsResult(actions, loop, access_level) ==
  IF Raised(loop) THEN Raise(loop.exc)
  ELSE [exc |-> "none", access_level |-> access_level,
        scores |-> PermissionScores(loop.read_score, loop.write_score,
                     loop.admin_score,
                     ActionsJustification(actions, loop, access_level,
                                          Len(loop.justifications))),
        high_risk_actions |-> loop.high_risk_actions]

ActionsEnd(actions, loop) ==
  IF Raised(loop) THEN Raise(loop.exc)
  ELSE ActionsResult(actions, loop, DetermineAccessLevel(loop))

\* PermissionScoringConfig.analyze_actions
analyze_actions(self, actions) ==
  ActionsEnd(actions, ActionsLoop(self, actions, Len(actions)))

(***************************************************************************)
(* permission_analyzer_v2.py                                               *)
(*                                                                         *)
(* An inline policy is None, the empty string, or a non-empty string.  A   *)
(* non-empty string is modelled by what json.loads makes of it: either it  *)
(* is not well-formed JSON, or it denotes a JSON value.                    *)
(***************************************************************************)
InlineText(value) == [t |-> "str", empty |-> FALSE, wellformed |-> TRUE, value |-> value]
InlineTruncated == [t |-> "str", empty |-> FALSE, wellformed |-> FALSE]
InlineEmpty == [t |-> "str", empty |-> TRUE]

\* json.loads(policy_json)
json_loads(policy_json) ==
  IF policy_json.wellformed THEN [exc |-> "none", value |-> policy_json.value]
  ELSE Raise("JSONDecodeError")

\* One iteration of `for statement in statements` on the actions found so far
StatementStep(actions, statement) ==
  IF statement.t # "dict" THEN [exc |-> "none", value |-> actions]
  ELSE LET effect == Get(statement.d, "Effect", PyStr(<<>>))
           statement_actions == Get(statement.d, "Action", PyList(<<>>))
       IN IF effect.t # "str" THEN Raise("AttributeError")
          ELSE IF Lower(effect.s) # <<"allow">> THEN [exc |-> "none", value |-> actions]
          ELSE CASE statement_actions.t = "str" ->
                      [exc |-> "none", value |-> Append(actions, statement_actions)]
                 [] statement_actions.t = "list" ->
                      [exc |-> "none", value |-> actions \o statement_actions.items]
                 [] OTHER -> Raise("TypeError")

RECURSIVE StatementsLoop(_, _)
StatementsLoop(statements, n) ==
  IF n = 0 THEN [exc |-> "none", value |-> <<>>]
  ELSE LET prev == StatementsLoop(statements, n - 1)
       IN IF Raised(prev) THEN prev ELSE StatementStep(prev.value, statements[n])

\* The except clause with json.JSONDecodeError left out
Caught_KeyErrorOnly(exc) == exc \in {"KeyError"}

\* `except (json.JSONDecodeError, KeyError)`
Caught(exc) == exc \in {"JSONDecodeError", "KeyError"}

\* PermissionAnalyzerV2._extract_actions_from_policy
_extract_actions_from_policy(policy_json) ==
  LET parsed == json_loads(policy_json)
  IN IF Raised(parsed)
     THEN IF Caught(parsed.exc)
          THEN [exc |-> "none", value |-> <<>>]
          ELSE parsed
     ELSE IF parsed.value.t # "dict" THEN Raise("AttributeError")
     ELSE LET got == Get(parsed.value.d, "Statement", PyList(<<>>))
              statements == IF got.t = "dict" THEN PyList(<<got>>) ELSE got
          IN CASE statements.t = "list" ->
                    StatementsLoop(statements.items, Len(statements.items))
               [] statements.t = "str" -> [exc |-> "none", value |-> <<>>]
               [] OTHER -> Raise("TypeError")

\* ManagedStep adding the scores of the policy in place of taking the maximum
ManagedStep_add(prev, policy_name, s) ==
  IF Raised(s) THEN Raise(s.exc)
  ELSE [exc |-> "none",
        read_score |-> prev.read_score + s.read_score,
        write_score |-> prev.write_score + s.write_score,
        admin_score |-> prev.admin_score + s.admin_score,
        justification_parts |->
          IF s.read_score > 0 \/ s.write_score > 0 \/ s.admin_score > 0
          THEN Append(prev.justification_parts,
                 <<"Managed policy", " ", "'">> \o policy_name
                   \o <<"'", ": ", "read=", ToString(s.read_score),
                        ", write=", ToString(s.write_score),
                        ", admin=", ToString(s.admin_score)>>)
          ELSE prev.justification_parts]

\* The body of `for policy in managed_policies`: prev is the state of the loop
\* before the iteration and s what score_managed_policy returned
ManagedStep(prev, policy_name, s) ==
  IF Raised(s) THEN Raise(s.exc)
  ELSE [exc |-> "none",
        read_score |-> Max(prev.read_score, s.read_score),
        write_score |-> Max(prev.write_score, s.write_score),
        admin_score |-> Max(prev.admin_score, s.admin_score),
        justification_parts |->
          IF s.read_score > 0 \/ s.write_score > 0 \/ s.admin_score > 0
          THEN Append(prev.justification_parts,
                 <<"Managed policy", " ", "'">> \o policy_name
                   \o <<"'", ": ", "read=", ToString(s.read_score),
                        ", write=", ToString(s.write_score),
                        ", admin=", ToString(s.admin_score)>>)
          ELSE prev.justification_parts]

ManagedNext(scoring_config, prev, policy_name) ==
  IF Raised(prev) THEN prev
  ELSE ManagedStep(prev, policy_name,
                   score_managed_policy(scoring_config, policy_name))

\* The loop over the managed policies after its first n iterations
RECURSIVE ManagedLoop(_, _, _)
ManagedLoop(scoring_config, managed_policies, n) ==
  IF n = 0
  THEN [exc |-> "none", read_score |-> 0, write_score |-> 0, admin_score |-> 0,
        justification_parts |-> <<>>]
  ELSE ManagedNext(scoring_config,
                   ManagedLoop(scoring_config, managed_policies, n - 1),
                   managed_policies[n].Name)

\* part.split(sep)[1]
SplitSecond(part, sep) ==
  LET first == FirstIndex(part, sep)
      rest == SubSeq(part, first + 1, Len(part))
      second == FirstIndex(rest, sep)
  IN IF second = 0 THEN rest ELSE SubSeq(rest, 1, second - 1)

\* [p for p in parts if needle in p]
RECURSIVE Filter(_, _)
Filter(parts, needle) ==
  IF Len(parts) = 0 THEN <<>>
  ELSE IF Contains(parts[1], <<needle>>)
       THEN <<parts[1]>> \o Filter(Tail(parts), needle)
       ELSE Filter(Tail(parts), needle)

\* The sources listed beside ReadOnlyAccess in the justification
RECURSIVE AdditionalSources(_)
AdditionalSources(parts) ==
  IF Len(parts) = 0 THEN <<>>
  ELSE LET part == parts[1]
           here ==
             IF Contains(part, <<"ReadOnlyAccess">>) THEN <<>>
             ELSE IF Contains(part, <<"Managed policy">>)
             THEN << <<"'">> \o (IF Contains(part, <<"'">>)
                                 THEN SplitSecond(part, "'")
                                 ELSE <<"managed policy">>)
                       \o <<"'", " managed policy">> >>
             ELSE IF Contains(part, <<"Inline policy">>)
             THEN << <<"inline policy">> >>
             ELSE <<>>
       IN here \o AdditionalSources(Tail(parts))

\* The justification synthesised at the end of _analyze_policies_v2
FinalJustification(parts, access_level, write_score, admin_score) ==
  LET any(needle) == \E i \in DOMAIN parts : Contains(parts[i], <<needle>>)
      managed == Filter(parts, "Managed policy")
      inline == Filter(parts, "Inline policy")
      additional_sources == AdditionalSources(parts)
  IN IF Len(parts) = 0
     THEN <<"Access level", ": ", AccessLevelValue(access_level),
            " - No detailed analysis available">>
     ELSE IF any("AdministratorAccess")
     THEN <<"Full administrative access via ", "AdministratorAccess",
            " managed policy">>
            \o (IF any("Inline policy")
                THEN <<" plus additional inline permissions">> ELSE <<>>)
     ELSE IF any("ReadOnlyAccess")
     THEN IF write_score > 0 \/ admin_score > 0
          THEN IF Len(additional_sources) > 0
               THEN <<"Read-only access via ", "ReadOnlyAccess", " managed policy",
                      ", ", "plus write/admin permissions from ">>
                      \o Join(additional_sources, ", ")
               ELSE <<"Read-only access via ", "ReadOnlyAccess", " managed policy",
                      ", ", "plus additional write/admin permissions">>
          ELSE <<"Read-only access via ", "ReadOnlyAccess", " managed policy">>
     ELSE IF Len(parts) = 1 /\ Contains(parts[1], <<"Single managed policy">>)
     THEN <<"Permissions granted via ">>
            \o (IF Contains(parts[1], <<": ">>)
                THEN SplitSecond(parts[1], ": ") ELSE <<"managed policy">>)
            \o <<" managed policy">>
     ELSE IF Len(managed) > 0 /\ Len(inline) > 0
     THEN <<"Combined permissions from ", ToString(Len(managed)),
            " managed policy(ies) and custom inline policy">>
     ELSE IF Len(managed) > 0
     THEN <<"Permissions from ", ToString(Len(managed)), " managed policy(ies)">>
     ELSE IF Len(inline) > 0 THEN <<"Custom permissions via inline policy">>
     ELSE <<"Mixed permission sources">>

\* `if inline_policy:` -- None and the empty string are false
Truthy(inline_policy) == inline_policy.t = "str" /\ ~inline_policy.empty

\* DetermineFinalAccessLevel keeping the level taken from the inline policy
\* ("take highest") in place of overwriting it
DetermineFinalAccessLevel_keep(access_level, read_score, write_score, admin_score) ==
  IF access_level = "FULL_ADMIN" \/ admin_score >= 5 THEN "FULL_ADMIN"
  ELSE IF access_level = "READ_WRITE" \/ write_score >= 5 THEN "READ_WRITE"
  ELSE IF read_score > 0 THEN "READ_ONLY"
  ELSE "UNKNOWN"

\* DetermineFinalAccessLevel testing the write score before the admin score
DetermineFinalAccessLevel_writeFirst(access_level, read_score, write_score, admin_score) ==
  IF write_score >= 5 THEN "READ_WRITE"
  ELSE IF admin_score >= 5 THEN "FULL_ADMIN"
  ELSE IF read_score > 0 THEN "READ_ONLY"
  ELSE "UNKNOWN"

\* _analyze_policies_v2, "Determine final access level based on scores": the
\* level tracked so far (access_level) is overwritten from the merged scores
DetermineFinalAccessLevel(access_level, read_score, write_score, admin_score) ==
  IF admin_score >= 5 THEN "FULL_ADMIN"
  ELSE IF write_score >= 5 THEN "READ_WRITE"
  ELSE IF read_score > 0 THEN "READ_ONLY"
  ELSE "UNKNOWN"

\* The fragment appended when no action was analysed and managed policies exist
FallbackParts(parts, policy_names) ==
  IF Len(policy_names) = 1
  THEN Append(parts, <<"Single managed policy", ": ">> \o policy_names[1])
  ELSE Append(parts,
         <<"Multiple managed policies", ": ">>
           \o Join(SubSeq(policy_names, 1,
                     IF Len(policy_names) > 3 THEN 3 ELSE Len(policy_names)),
                   ", "))
         \o (IF Len(policy_names) > 3
             THEN << <<"... and ", ToString(Len(policy_names) - 3), " more">> >>
             ELSE <<>>)

\* "Update access level (take highest)" after the inline policy was analysed
InlineAccessLevel(inline_access_level) ==
  IF AccessLevelValue(inline_access_level) = "Admin" THEN "FULL_ADMIN"
  ELSE IF AccessLevelValue(inline_access_level) = "Read Write" THEN "READ_WRITE"
  ELSE "READ_ONLY"

\* The end of _analyze_policies_v2, from the merged scores, the fragments and
\* the access level tracked so far
PoliciesResult(read_score, write_score, admin_score, parts, tracked_level) ==
  [exc |-> "none",
   access_level |->
     DetermineFinalAccessLevel(tracked_level, read_score, write_score, admin_score),
   scores |->
     PermissionScores(read_score, write_score, admin_score,
       FinalJustification(parts,
         DetermineFinalAccessLevel(tracked_level, read_score, write_score,
                                   admin_score),
         write_score, admin_score))]

\* _analyze_policies_v2 after the managed policies (state m of their loop), for
\* an inline policy whose non-empty action list was analysed as `analysed`
WithInline(m, analysed) ==
  IF Raised(analysed) THEN Raise(analysed.exc)
  ELSE PoliciesResult(Max(m.read_score, analysed.scores.read_score),
                      Max(m.write_score, analysed.scores.write_score),
                      Max(m.admin_score, analysed.scores.admin_score),
                      IF Len(analysed.scores.justification) > 0
                      THEN Append(m.justification_parts,
                                  <<"Inline policy", " analysis", ": ">>
                                    \o analysed.scores.justification)
                      ELSE m.justification_parts,
                      InlineAccessLevel(analysed.access_level))

\* _analyze_policies_v2 after the managed policies when no action was extracted
WithoutInline(m, managed_policies) ==
  PoliciesResult(m.read_score, m.write_score, m.admin_score,
                 IF Len(managed_policies) > 0
                 THEN FallbackParts(m.justification_parts,
                        [i \in DOMAIN managed_policies |-> managed_policies[i].Name])
                 ELSE m.justification_parts,
                 "READ_ONLY")

AfterManaged(scoring_config, managed_policies, m, extracted) ==
  IF Raised(m) THEN Raise(m.exc)
  ELSE IF Raised(extracted) THEN Raise(extracted.exc)
  ELSE IF Len(extracted.value) > 0
  THEN WithInline(m, analyze_actions(scoring_config, extracted.value))
  ELSE WithoutInline(m, managed_policies)

\* PermissionAnalyzerV2._analyze_policies_v2
_analyze_policies_v2(scoring_config, managed_policies, inline_policy) ==
  AfterManaged(scoring_config, managed_policies,
               ManagedLoop(scoring_config, managed_policies, Len(managed_policies)),
               IF Truthy(inline_policy)
               THEN _extract_actions_from_policy(inline_policy)
               ELSE [exc |-> "none", value |-> <<>>])

\* What the sso_admin client answers to one request
Fetched(value) == [exc |-> "none", value |-> value]

\* PermissionAnalyzerV2._get_managed_policies: `except Exception: return []`
_get_managed_policies(response) ==
  IF Raised(response) THEN <<>> ELSE response.value

\* PermissionAnalyzerV2._get_inline_policy: only ResourceNotFoundException is caught
_get_inline_policy(response) ==
  IF response.exc = "ResourceNotFoundException" THEN Fetched(PyNone)
  ELSE response

AnalysisResult(access_level, scores) ==
  [access_level |-> access_level, scores |-> scores]

\* The end of the try block of analyze_permission_set: the tuple returned and
\* whether it was stored in self._cache
TryResult(analysed) ==
  IF Raised(analysed)
  THEN [stored |-> FALSE, result |-> AnalysisResult("UNKNOWN", ZeroScores)]
  ELSE [stored |-> TRUE,
        result |-> AnalysisResult(analysed.access_level, analysed.scores)]

TryAnalyze(scoring_config, managed_policies, inline_policy) ==
  IF Raised(inline_policy)
  THEN [stored |-> FALSE, result |-> AnalysisResult("UNKNOWN", ZeroScores)]
  ELSE TryResult(_analyze_policies_v2(scoring_config, managed_policies,
                                      inline_policy.value))

\* The try/except of analyze_permission_set on a cache miss
AnalyzeMiss(scoring_config, managed_response, inline_response) ==
  TryAnalyze(scoring_config, _get_managed_policies(managed_response),
             _get_inline_policy(inline_response))

(***************************************************************************)
(* The inputs the callers can supply.                                      *)
(***************************************************************************)
BoundedSeq(S, n) == UNION {[1..k -> S] : k \in 0..n}

\* Values found in the Action field of a parsed policy document
ActionValues ==
  {PyStr(a) : a \in {ActStar, ActStarStar, ActS3Get, ActS3GetUpper, ActS3Put,
                     ActS3DeleteBucket, ActS3Tag, ActIamCreateRole,
                     ActIamPassRole, ActKmsDecrypt, ActEc2Delete,
                     ActEc2Describe, ActNoColon, ActIamCreateDescribe}}
    \cup {PyInt, PyNone, PyList(<<>>)}

\* Names of managed policies attached to permission sets
AttachedNames ==
  {<<"AdministratorAccess">>, <<"ReadOnlyAccess">>, <<"critical">>,
   <<"Custom">>, <<"Team", "AdministratorAccess">>}

PolicyNames ==
  AttachedNames \cup {<<"PowerUserAccess">>, <<"S3", "FullAccess">>, <<"low">>}

Statement(effect, action) == PyDict([Effect |-> effect, Action |-> action])

PolicyDoc(statements) == InlineText(PyDict([Statement |-> statements]))

Allow == PyStr(<<"Allow">>)

\* Inline policies a permission set can carry
InlinePolicies ==
  {PyNone, InlineEmpty, InlineTruncated,
   InlineText(PyList(<<>>)),
   InlineText(PyNone),
   InlineText(PyDict([Version |-> PyStr(<<"2012-10-17">>)])),
   PolicyDoc(PyList(<<>>)),
   PolicyDoc(PyInt),
   PolicyDoc(Statement(Allow, PyStr(ActS3Get))),
   PolicyDoc(PyList(<<Statement(PyStr(<<"allow">>),
                                PyList(<<PyStr(ActS3Get), PyStr(ActS3Put)>>))>>)),
   PolicyDoc(PyList(<<Statement(Allow, PyList(<<PyStr(ActIamCreateRole)>>))>>)),
   PolicyDoc(PyList(<<Statement(Allow, PyStr(ActStar))>>)),
   PolicyDoc(PyList(<<Statement(Allow, PyList(<<PyStr(ActEc2Delete)>>))>>)),
   PolicyDoc(PyList(<<Statement(PyStr(<<"Deny">>), PyStr(ActStar)),
                      Statement(Allow, PyStr(ActS3Get))>>)),
   PolicyDoc(PyList(<<PyDict([Action |-> PyStr(ActStar)])>>)),
   PolicyDoc(PyList(<<Statement(PyNone, PyStr(ActStar))>>)),
   PolicyDoc(PyList(<<PyDict([Effect |-> Allow])>>)),
   PolicyDoc(PyList(<<Statement(Allow, PyInt)>>)),
   PolicyDoc(PyList(<<Statement(Allow, PyList(<<PyStr(ActS3Get), PyInt>>))>>))}

ManagedPolicy(name) == [Name |-> name]

\* What is attached to one permission set
Profiles ==
  {[managed |-> m, inline |-> i] :
     m \in BoundedSeq({ManagedPolicy(n) : n \in AttachedNames}, MaxManaged),
     i \in InlinePolicies}

\* The rulebook sources the scoring claims are checked under
ScoringSources ==
  {[state |-> "missing"], [state |-> "doc", doc |-> PyDict(FullDoc)],
   [state |-> "doc", doc |-> PyDict(LegacyDoc)]}

NoCall == [op |-> "none"]

Unbuilt == [exc |-> "unbuilt"]

\* A call that was made and has not returned yet
Pending == [exc |-> "pending"]

Returned(c) == c.op # "none" /\ c.out.exc # "pending"

\* The calls of the scoring entry points a caller can make
ScoreActionCalls ==
  {[op |-> "score_action", action |-> a, out |-> Pending] : a \in ActionValues}

ScoreManagedPolicyCalls ==
  {[op |-> "score_managed_policy", policy_name |-> n, out |-> Pending] :
     n \in PolicyNames}

AnalyzeActionsCalls ==
  {[op |-> "analyze_actions", actions |-> l, out |-> Pending] :
     l \in BoundedSeq(ActionValues, MaxActions)}

GetRiskLevelCalls ==
  {[op |-> "get_risk_level", scores |-> PermissionScores(r, w, a, <<>>),
    out |-> Pending] :
     r \in 0..MaxScore, w \in 0..MaxScore, a \in 0..MaxScore}

(***************************************************************************)
(* Operations.                                                             *)
(***************************************************************************)
\* get_scoring_config() / PermissionScoringConfig(config_path)
Construct ==
  /\ config = Unbuilt
  /\ \E source \in Sources : config' = PermissionScoringConfig(source)
  /\ UNCHANGED <<cache, backend, returned, call>>

GetRiskLevel ==
  /\ call.op = "get_risk_level"
  /\ call.out = Pending
  /\ call' = [call EXCEPT !.out = [exc |-> "none", value |-> get_risk_level(call.scores)]]
  /\ UNCHANGED <<config, cache, backend, returned>>

ScoreAction ==
  /\ config.exc = "none"
  /\ call.op = "score_action"
  /\ call.out = Pending
  /\ call' = [call EXCEPT !.out = score_action(config, call.action)]
  /\ UNCHANGED <<config, cache, backend, returned>>

ScoreManagedPolicy ==
  /\ config.exc = "none"
  /\ call.op = "score_managed_policy"
  /\ call.out = Pending
  /\ call' = [call EXCEPT !.out = score_managed_policy(config, call.policy_name)]
  /\ UNCHANGED <<config, cache, backend, returned>>

AnalyzeActions ==
  /\ config.exc = "none"
  /\ call.op = "analyze_actions"
  /\ call.out = Pending
  /\ call' = [call EXCEPT !.out = analyze_actions(config, call.actions)]
  /\ UNCHANGED <<config, cache, backend, returned>>

\* PermissionAnalyzerV2.analyze_permission_set(permission_set_arn) when the
\* ARN is in self._cache
AnalyzeCached(arn) ==
  /\ config.exc = "none"
  /\ arn \in DOMAIN cache
  /\ call' = [op |-> "analyze_permission_set", arn |-> arn, hit |-> TRUE,
              out |-> cache[arn]]
  /\ returned' = [returned EXCEPT ![arn] = @ \cup {cache[arn]}]
  /\ UNCHANGED <<config, cache, backend>>

\* The client's answer for one request: the value, or the error raised
Response(fetch, value) == IF fetch = "ok" THEN Fetched(value) ELSE Raise(fetch)

\* Missed storing the result in a cache emptied of its other entries
Missed_evict(arn, managed_response, inline_response, miss) ==
  /\ call' = [op |-> "analyze_permission_set", arn |-> arn, hit |-> FALSE,
              managed_response |-> managed_response,
              inline_response |-> inline_response, out |-> miss.result]
  /\ cache' = IF miss.stored THEN (arn :> miss.result) ELSE cache
  /\ returned' = [returned EXCEPT ![arn] = @ \cup {miss.result}]

\* The state after a cache miss whose try block ended as `miss`
Missed(arn, managed_response, inline_response, miss) ==
  /\ call' = [op |-> "analyze_permission_set", arn |-> arn, hit |-> FALSE,
              managed_response |-> managed_response,
              inline_response |-> inline_response, out |-> miss.result]
  /\ cache' = IF miss.stored THEN (arn :> miss.result) @@ cache ELSE cache
  /\ returned' = [returned EXCEPT ![arn] = @ \cup {miss.result}]

\* analyze_permission_set when the ARN is not in self._cache; each of the two
\* requests to sso_admin succeeds or fails
AnalyzeUncached(arn) ==
  /\ config.exc = "none"
  /\ arn \notin DOMAIN cache
  /\ \E managed_fetch \in {"ok", "ClientError"},
        inline_fetch \in {"ok", "ResourceNotFoundException", "ClientError"} :
       Missed(arn, Response(managed_fetch, backend[arn].managed),
              Response(inline_fetch, backend[arn].inline),
              AnalyzeMiss(config, Response(managed_fetch, backend[arn].managed),
                          Response(inline_fetch, backend[arn].inline)))
  /\ UNCHANGED <<config, backend>>

AnalyzePermissionSet ==
  \E arn \in DOMAIN backend : AnalyzeCached(arn) \/ AnalyzeUncached(arn)

(***************************************************************************)
(* Spec: one analyzer, built on a loaded rulebook, analysing a permission  *)
(* set any number of times.                                                *)
(***************************************************************************)
Arns == {"ps-1"}

Init ==
  /\ config \in {PermissionScoringConfig(source) : source \in ScoringSources}
  /\ cache = <<>>
  /\ backend \in [Arns -> Profiles]
  /\ returned = [arn \in Arns |-> {}]
  /\ call = NoCall

Next == AnalyzePermissionSet

Spec == Init /\ [][Next]_vars

(***************************************************************************)
(* SpecScoring: the scoring entry points called on a loaded rulebook.      *)
(***************************************************************************)
InitScoring ==
  /\ config \in {PermissionScoringConfig(source) : source \in ScoringSources}
  /\ cache = <<>>
  /\ backend = <<>>
  /\ returned = <<>>
  /\ call \in ScoreActionCalls \cup ScoreManagedPolicyCalls \cup AnalyzeActionsCalls

NextScoring == ScoreAction \/ ScoreManagedPolicy \/ AnalyzeActions

SpecScoring == InitScoring /\ [][NextScoring]_vars

(***************************************************************************)
(* SpecConfig: the scoring configuration is constructed from a rulebook    *)
(* source in any state, then used to score an action.                      *)
(***************************************************************************)
InitConfig ==
  /\ config = Unbuilt
  /\ cache = <<>>
  /\ backend = <<>>
  /\ returned = <<>>
  /\ call \in ScoreActionCalls

NextConfig == Construct \/ ScoreAction

SpecConfig == InitConfig /\ [][NextConfig]_vars

(***************************************************************************)
(* SpecRisk: get_risk_level applied to every triple of scores.             *)
(***************************************************************************)
InitRisk ==
  /\ config = Unbuilt
  /\ cache = <<>>
  /\ backend = <<>>
  /\ returned = <<>>
  /\ call \in GetRiskLevelCalls

NextRisk == GetRiskLevel

SpecRisk == InitRisk /\ [][NextRisk]_vars

(***************************************************************************)
(* Claims.                                                                 *)
(***************************************************************************)
\* C1: get_risk_level is the fixed threshold function of (admin, write, read):
\* CRITICAL when admin>=8; else HIGH when admin>=5 or write>=8; else MEDIUM when
\* write>=5; else LOW when read>=5; else MINIMAL; with the boundary cases
\* admin=5 -> HIGH, admin=4 and write=8 -> HIGH, write=5 -> MEDIUM,
\* write=4 and read=5 -> LOW, all-zero -> MINIMAL.
C1_RiskLevelThresholds ==
  (call.op = "get_risk_level" /\ Returned(call)) =>
    LET a == call.scores.admin_score
        w == call.scores.write_score
        r == call.scores.read_score
        out == call.out.value
    IN /\ (out = "CRITICAL") <=> (a >= 8)
       /\ (out = "HIGH") <=> (a < 8 /\ (a >= 5 \/ w >= 8))
       /\ (out = "MEDIUM") <=> (a < 5 /\ w < 8 /\ w >= 5)
       /\ (out = "LOW") <=> (a < 5 /\ w < 5 /\ r >= 5)
       /\ (out = "MINIMAL") <=> (a < 5 /\ w < 5 /\ r < 5)
       /\ (a = 5 /\ w < 5) => out = "HIGH"
       /\ (a = 4 /\ w = 8) => out = "HIGH"
       /\ (a = 4 /\ w = 7) => out = "MEDIUM"
       /\ (a = 7) => out = "HIGH"
       /\ (a = 0 /\ w = 5) => out = "MEDIUM"
       /\ (a = 0 /\ w = 4 /\ r = 5) => out = "LOW"
       /\ (a = 0 /\ w = 4 /\ r = 4) => out = "MINIMAL"
       /\ (a = 0 /\ w = 0 /\ r = 0) => out = "MINIMAL"

C1_Witness ==
  /\ call.op = "get_risk_level"
  /\ Returned(call)
  /\ call.scores.admin_score = 5
  /\ call.scores.write_score = 4
  /\ call.out.value = "HIGH"

\* The threshold function of the data model: admin>=5 -> FULL_ADMIN; else
\* write>=5 -> READ_WRITE; else read>0 -> READ_ONLY; else UNKNOWN
ThresholdLevel(scores) ==
  CASE scores.admin_score >= 5 -> "FULL_ADMIN"
    [] scores.admin_score < 5 /\ scores.write_score >= 5 -> "READ_WRITE"
    [] scores.admin_score < 5 /\ scores.write_score < 5 /\ scores.read_score > 0 ->
         "READ_ONLY"
    [] OTHER -> "UNKNOWN"

AnalyzeCall == call.op = "analyze_permission_set"

\* The actions analyze_actions was given for the inline policy of the last
\* uncached call, <<>> when there were none
InlineActionsOf(c) ==
  IF c.inline_response.exc = "none" /\ Truthy(c.inline_response.value)
     /\ ~Raised(_extract_actions_from_policy(c.inline_response.value))
  THEN _extract_actions_from_policy(c.inline_response.value).value
  ELSE <<>>

\* C2: the AccessLevel returned by the permission-set analysis is the threshold
\* function of the returned merged scores (FULL_ADMIN iff admin>=5; else
\* READ_WRITE iff write>=5; else READ_ONLY iff read>0; else UNKNOWN), whatever
\* level analyze_actions reported for the inline policy.
C2_LevelIsThresholdOfScores ==
  AnalyzeCall => call.out.access_level = ThresholdLevel(call.out.scores)

\* An analysis whose inline policy was reported FULL_ADMIN by analyze_actions
\* and whose merged admin score is below 5
C2_Witness ==
  /\ AnalyzeCall
  /\ ~call.hit
  /\ Len(InlineActionsOf(call)) > 0
  /\ ~Raised(analyze_actions(config, InlineActionsOf(call)))
  /\ analyze_actions(config, InlineActionsOf(call)).access_level = "FULL_ADMIN"
  /\ call.out.scores.admin_score \in 1..4
  /\ call.out.access_level = "READ_WRITE"

ActionsCall ==
  call.op = "analyze_actions" /\ Returned(call) /\ call.out.exc = "none"

\* C3: analyze_actions derives its AccessLevel from the final merged scores by
\* the threshold function alone; a merged admin score in 1..4 is not FULL_ADMIN
\* and a merged write score in 1..4 (admin<5) is not READ_WRITE.
C3_ActionsLevelIsThresholdOfScores ==
  ActionsCall => call.out.access_level = ThresholdLevel(call.out.scores)

LeqScores(s1, s2) ==
  /\ s1.read_score <= s2.read_score
  /\ s1.write_score <= s2.write_score
  /\ s1.admin_score <= s2.admin_score

\* C4: for every split of an analysed action list into A followed by B, each
\* score of the whole list is >= the score analyze_actions returns for A and
\* for B, and while folding the actions the running scores never decrease.
C4_MonotonicMerge ==
  ActionsCall =>
    /\ \A k \in 0..Len(call.actions) :
         LET A == SubSeq(call.actions, 1, k)
             B == SubSeq(call.actions, k + 1, Len(call.actions))
         IN /\ ~Raised(analyze_actions(config, A))
            /\ ~Raised(analyze_actions(config, B))
            /\ LeqScores(analyze_actions(config, A).scores, call.out.scores)
            /\ LeqScores(analyze_actions(config, B).scores, call.out.scores)
    /\ \A n \in 1..Len(call.actions) :
         LeqScores(ActionsLoop(config, call.actions, n - 1),
                   ActionsLoop(config, call.actions, n))

\* A list whose last action scores lower than an earlier one
C4_Witness ==
  /\ ActionsCall
  /\ Len(call.actions) >= 2
  /\ score_action(config, call.actions[Len(call.actions)]).admin_score = 0
  /\ score_action(config, call.actions[1]).admin_score = 10
  /\ call.out.scores.admin_score = 10

\* C5: for any action list containing "*", under any loaded configuration,
\* analyze_actions returns scores (S, S, S), S the severity of the critical
\* tier, and AccessLevel FULL_ADMIN.
C5_WildcardDominance ==
  (/\ call.op = "analyze_actions"
   /\ Returned(call)
   /\ \E i \in DOMAIN call.actions : call.actions[i] = PyStr(ActStar)
   /\ \A i \in DOMAIN call.actions : call.actions[i].t = "str") =>
    LET S == config.config["scoring_rules"]["risk_levels"]["critical"]
    IN /\ call.out.exc = "none"
       /\ call.out.scores.read_score = S
       /\ call.out.scores.write_score = S
       /\ call.out.scores.admin_score = S
       /\ call.out.access_level = "FULL_ADMIN"

\* C6: any two calls of analyze_permission_set with the same ARN return the
\* same (AccessLevel, read, write, admin, justification), also when the policy
\* fetch fails on one call and succeeds on another.
C6_Idempotent ==
  \A arn \in DOMAIN returned : Cardinality(returned[arn]) <= 1

\* C7: no exception escapes score_action, score_managed_policy, analyze_actions
\* and analyze_permission_set: every call returns a value.
C7_NoExceptionEscapes ==
  /\ call.op = "analyze_permission_set" => "access_level" \in DOMAIN call.out
  /\ (call.op \in {"score_action", "score_managed_policy", "analyze_actions"}
      /\ Returned(call)) => call.out.exc = "none"

\* Inline policy strings that are not a well-formed policy document
MalformedInline ==
  {InlineTruncated,
   InlineText(PyList(<<>>)),
   InlineText(PyNone),
   PolicyDoc(PyList(<<PyDict([Action |-> PyStr(ActStar)])>>)),
   PolicyDoc(PyList(<<Statement(PyNone, PyStr(ActStar))>>)),
   PolicyDoc(PyList(<<PyDict([Effect |-> Allow])>>)),
   PolicyDoc(PyList(<<Statement(Allow, PyInt)>>))}

\* What the analysis returns for the managed policies of call c and no inline
\* policy
WithoutInlinePolicy(c) ==
  AnalyzeMiss(config, c.managed_response, Fetched(PyNone)).result

\* C8: with a malformed inline policy the (AccessLevel, scores, justification)
\* equals the result for the same managed policies with no inline policy.
C8_MalformedInlineIsNoInline ==
  (/\ AnalyzeCall
   /\ ~call.hit
   /\ call.inline_response.exc = "none"
   /\ call.inline_response.value \in MalformedInline) =>
    call.out = WithoutInlinePolicy(call)

TruncatedCall ==
  /\ AnalyzeCall
  /\ ~call.hit
  /\ call.inline_response.exc = "none"
  /\ call.inline_response.value = InlineTruncated

C10_ConstructNeverFails ==
  /\ config.exc \in {"unbuilt", "none"}
  /\ (Returned(call) /\ call.action.t = "str") => call.out.exc = "none"

\* The service prefix of an action string that holds ":"
ServicePrefix(action) == Lower(SubSeq(action, 1, FirstIndex(action, ":") - 1))

\* The action has an exact entry in the action table of its service (and is no
\* special action)
HasExactEntry(self, action) ==
  /\ action.t = "str"
  /\ action.s \notin DOMAIN Get(self.config, "special_actions", EmptyDict)
  /\ FirstIndex(action.s, ":") # 0
  /\ ServicePrefix(action.s) \in DOMAIN Get(self.config, "services", EmptyDict)
  /\ action.s \in
       DOMAIN Get(self.config["services"][ServicePrefix(action.s)], "actions",
                  EmptyDict)

ExactEntry(self, action) ==
  self.config["services"][ServicePrefix(action.s)]["actions"][action.s]

\* C11: an action with an exact entry in its service's action table is scored
\* from that entry (its tier, and for the four shaped tiers the severity of the
\* tier times the service-specific weight), never from the pattern rules or the
\* defaults, whatever tier name the entry carries.
C11_ExactEntryWins ==
  (/\ call.op = "score_action"
   /\ Returned(call)
   /\ HasExactEntry(config, call.action)) =>
    LET tier == Get(ExactEntry(config, call.action), "risk_level", "medium")
        w == Weighted(Get(config.config["scoring_rules"]["risk_levels"], tier, 5),
                      config.config["weights"]["service_specific"])
    IN /\ call.out.exc = "none"
       /\ call.out.risk_level = tier
       /\ IsTier(tier) =>
            <<call.out.read_score, call.out.write_score, call.out.admin_score>>
              = TierShape(tier, w)

\* score_action returned a tier for an action that is no special action
ResolvedToTier ==
  /\ call.op = "score_action"
  /\ Returned(call)
  /\ call.out.exc = "none"
  /\ IsTier(call.out.risk_level)
  /\ call.action.s \notin DOMAIN Get(config.config, "special_actions", EmptyDict)

\* The weighted scores a tier can get: its severity times the service-specific
\* or the pattern-based weight
WeightedScores(self, tier) ==
  {Weighted(self.config["scoring_rules"]["risk_levels"][tier],
            self.config["weights"][k]) : k \in {"service_specific", "pattern_based"}}

\* C12: when score_action resolves an action to a tier with weighted score w the
\* triple is (w,w,w) for critical, (w,w,w div 2) for high, (w div 2,w,0) for
\* medium and (w,0,0) for low; an action resolved to low has write=0, admin=0.
C12_TierShape ==
  ResolvedToTier =>
    LET r == call.out.read_score
        w == call.out.write_score
        a == call.out.admin_score
        tier == call.out.risk_level
    IN /\ tier = "critical" =>
            r \in WeightedScores(config, tier) /\ w = r /\ a = r
       /\ tier = "high" =>
            r \in WeightedScores(config, tier) /\ w = r /\ a = r \div 2
       /\ tier = "medium" =>
            w \in WeightedScores(config, tier) /\ r = w \div 2 /\ a = 0
       /\ tier = "low" =>
            r \in WeightedScores(config, tier) /\ w = 0 /\ a = 0

\* kms:Decrypt, configured as low, scored from its service entry
C12_Witness ==
  /\ ResolvedToTier
  /\ call.action = PyStr(ActKmsDecrypt)
  /\ call.out.risk_level = "low"
  /\ call.out.read_score = 3
  /\ call.out.write_score = 0
  /\ call.out.admin_score = 0

\* An uncached analysis of a permission set whose only attachment is the
\* managed policy `name`, without inline policy
OnlyManaged(name) ==
  /\ AnalyzeCall
  /\ ~call.hit
  /\ call.managed_response = Fetched(<<ManagedPolicy(name)>>)
  /\ call.inline_response \in {Fetched(PyNone), Raise("ResourceNotFoundException")}

\* C13: the managed policy AdministratorAccess alone yields FULL_ADMIN, scores
\* (10,10,10) and a justification containing "Full administrative access via
\* AdministratorAccess managed policy", under every loaded configuration.
C13_AdministratorAccessAlone ==
  OnlyManaged(<<"AdministratorAccess">>) =>
    /\ call.out.access_level = "FULL_ADMIN"
    /\ call.out.scores.read_score = 10
    /\ call.out.scores.write_score = 10
    /\ call.out.scores.admin_score = 10
    /\ Contains(call.out.scores.justification,
                <<"Full administrative access via ", "AdministratorAccess",
                  " managed policy">>)

\* C14: the managed policy ReadOnlyAccess alone yields READ_ONLY with admin=0,
\* write=0, read>0 and a justification containing "Read-only access via
\* ReadOnlyAccess managed policy" that mentions no additional write/admin
\* permissions, under every loaded configuration.
C14_ReadOnlyAccessAlone ==
  OnlyManaged(<<"ReadOnlyAccess">>) =>
    /\ call.out.access_level = "READ_ONLY"
    /\ call.out.scores.admin_score = 0
    /\ call.out.scores.write_score = 0
    /\ call.out.scores.read_score > 0
    /\ call.out.scores.justification =
         <<"Read-only access via ", "ReadOnlyAccess", " managed policy">>

\* seq without its i-th element
Remove(seq, i) == SubSeq(seq, 1, i - 1) \o SubSeq(seq, i + 1, Len(seq))

\* An uncached analysis whose inline policy is a document with a list of
\* statements
StatementListCall ==
  /\ AnalyzeCall
  /\ ~call.hit
  /\ call.inline_response.exc = "none"
  /\ Truthy(call.inline_response.value)
  /\ call.inline_response.value.wellformed
  /\ call.inline_response.value.value.t = "dict"
  /\ "Statement" \in DOMAIN call.inline_response.value.value.d
  /\ call.inline_response.value.value.d["Statement"].t = "list"

StatementsOf(c) == c.inline_response.value.value.d["Statement"].items

\* The statement is an object whose Effect is anything other than "Allow"
NotAllow(statement) ==
  /\ statement.t = "dict"
  /\ Get(statement.d, "Effect", PyNone) # Allow

\* The actions of the inline policy that are passed to analyze_actions
ActionsPassed(inline_policy) ==
  IF Raised(_extract_actions_from_policy(inline_policy)) THEN <<>>
  ELSE _extract_actions_from_policy(inline_policy).value

\* C15: the actions of a statement whose Effect is anything other than "Allow"
\* never reach analyze_actions: removing such a statement from the inline policy
\* leaves the extracted actions, the scores and the access level unchanged.
C15_OnlyAllowContributes ==
  StatementListCall =>
    \A i \in DOMAIN StatementsOf(call) :
      NotAllow(StatementsOf(call)[i]) =>
        LET without == PolicyDoc(PyList(Remove(StatementsOf(call), i)))
            other == AnalyzeMiss(config, call.managed_response,
                                 Fetched(without)).result
        IN /\ ActionsPassed(call.inline_response.value) = ActionsPassed(without)
           /\ call.out.access_level = other.access_level
           /\ call.out.scores.read_score = other.scores.read_score
           /\ call.out.scores.write_score = other.scores.write_score
           /\ call.out.scores.admin_score = other.scores.admin_score

(***************************************************************************)
(* data_models.py: the exported row.  SpecExport: to_dict applied to a     *)
(* user status and a role.                                                 *)
(***************************************************************************)
\* Role(name, arn, access_level, scores): the fields the row reads
Role(access_level, scores) == [access_level |-> access_level, scores |-> scores]

\* to_dict comparing the status without lower-casing it
to_dict_caseSensitive(status, role) ==
  [Access_Level |->
     IF status = <<"disabled">> THEN AccessLevelValue("NO_ACCESS")
     ELSE AccessLevelValue(role.access_level),
   User_Status |-> status,
   Read_Score |-> role.scores.read_score,
   Write_Score |-> role.scores.write_score,
   Admin_Score |-> role.scores.admin_score,
   Risk_Level |-> get_risk_level(role.scores),
   Justification |-> role.scores.justification]

\* UserAccountRoleGroup.to_dict: the columns that depend on the user's status
\* and on the role
to_dict(status, role) ==
  [Access_Level |->
     IF Lower(status) = <<"disabled">> THEN AccessLevelValue("NO_ACCESS")
     ELSE AccessLevelValue(role.access_level),
   User_Status |-> status,
   Read_Score |-> role.scores.read_score,
   Write_Score |-> role.scores.write_score,
   Admin_Score |-> role.scores.admin_score,
   Risk_Level |-> get_risk_level(role.scores),
   Justification |-> role.scores.justification]

\* User.status values
Statuses ==
  {<<"Enabled">>, <<"Disabled">>, <<"disabled">>, <<"DISABLED">>, <<"Unknown">>}

AccessLevels == {"READ_ONLY", "READ_WRITE", "FULL_ADMIN", "NO_ACCESS", "UNKNOWN"}

\* Scores around the thresholds of get_risk_level
ScoreSamples == {0, 4, 5, 7, 8, MaxScore}

ToDictCalls ==
  {[op |-> "to_dict", status |-> s,
    role |-> Role(l, PermissionScores(r, w, a, j)), out |-> Pending] :
     s \in Statuses, l \in AccessLevels, r \in ScoreSamples, w \in ScoreSamples,
     a \in ScoreSamples, j \in {<<>>, <<"Custom permissions via inline policy">>}}

ToDict ==
  /\ call.op = "to_dict"
  /\ call.out = Pending
  /\ call' = [call EXCEPT !.out = [exc |-> "none",
                                   value |-> to_dict(call.status, call.role)]]
  /\ UNCHANGED <<config, cache, backend, returned>>

InitExport ==
  /\ config = Unbuilt
  /\ cache = <<>>
  /\ backend = <<>>
  /\ returned = <<>>
  /\ call \in ToDictCalls

NextExport == ToDict

SpecExport == InitExport /\ [][NextExport]_vars

\* C16: in the exported row the "Access Level" is "No access" whenever the
\* user's status is disabled in any letter case, and the role's own access
\* level otherwise; the score columns, the risk level and the justification
\* are those of the role in both cases.
C16_DisabledIsNoAccess ==
  (call.op = "to_dict" /\ Returned(call)) =>
    LET row == call.out.value
    IN /\ call.status \in {<<"Disabled">>, <<"disabled">>, <<"DISABLED">>} =>
            row.Access_Level = "No access"
       /\ call.status \in {<<"Enabled">>, <<"Unknown">>} =>
            row.Access_Level = AccessLevelValue(call.role.access_level)
       /\ row.Read_Score = call.role.scores.read_score
       /\ row.Write_Score = call.role.scores.write_score
       /\ row.Admin_Score = call.role.scores.admin_score
       /\ row.Risk_Level = get_risk_level(call.role.scores)
       /\ row.Justification = call.role.scores.justification

\* A disabled user holding a FULL_ADMIN role: "No access" beside the role's
\* scores and risk level
C16_Witness ==
  /\ call.op = "to_dict"
  /\ Returned(call)
  /\ call.status = <<"Disabled">>
  /\ call.role.access_level = "FULL_ADMIN"
  /\ call.role.scores.admin_score = 8
  /\ call.out.value.Access_Level = "No access"
  /\ call.out.value.Risk_Level = "CRITICAL"

(***************************************************************************)
(* SpecRange: the scoring entry points and the permission-set analysis on  *)
(* rulebooks whose weights vary (in tenths; 12 is 1.2).                    *)
(***************************************************************************)
Weights(service_specific, pattern_based, managed_policy) ==
  [service_specific |-> service_specific, pattern_based |-> pattern_based,
   managed_policy |-> managed_policy]

\* The weights tables of the rulebooks
WeightTables ==
  {Weights(10, 7, 10), Weights(7, 10, 10), Weights(12, 7, 10), Weights(10, 12, 12)}

\* The rulebook sources with each weights table
RangeSources ==
  {[state |-> "missing"]}
    \cup {[state |-> "doc", doc |-> PyDict([d EXCEPT !["weights"] = w])] :
            d \in {FullDoc, LegacyDoc}, w \in WeightTables}

InitRange ==
  /\ config \in {PermissionScoringConfig(source) : source \in RangeSources}
  /\ cache = <<>>
  /\ returned = [arn \in Arns |-> {}]
  /\ \/ /\ backend \in [Arns -> Profiles]
        /\ call = NoCall
     \/ /\ backend = <<>>
        /\ call \in ScoreActionCalls \cup ScoreManagedPolicyCalls
                      \cup AnalyzeActionsCalls

NextRange ==
  ScoreAction \/ ScoreManagedPolicy \/ AnalyzeActions \/ AnalyzePermissionSet

SpecRange == InitRange /\ [][NextRange]_vars

InRange(x) == x \in 0..10

\* The tier severities, the default triple and the explicit managed-policy
\* scores are in 0..10 and the weights are between 0 and 1.0
ConfigInRange(self) ==
  /\ \A k \in DOMAIN self.config["scoring_rules"]["risk_levels"] :
       InRange(self.config["scoring_rules"]["risk_levels"][k])
  /\ \A k \in DOMAIN self.config["scoring_rules"]["defaults"] :
       InRange(self.config["scoring_rules"]["defaults"][k])
  /\ \A i \in DOMAIN self.config["managed_policies"] :
       self.config["managed_policies"][i].val.t = "dict" =>
         \A k \in DOMAIN self.config["managed_policies"][i].val.d :
           InRange(self.config["managed_policies"][i].val.d[k])
  /\ \A k \in DOMAIN self.config["weights"] : self.config["weights"][k] \in 0..10

ScoresInRange(s) ==
  InRange(s.read_score) /\ InRange(s.write_score) /\ InRange(s.admin_score)

\* C17: for a configuration whose severities, default triple and explicit
\* managed-policy scores are in 0..10 and whose weights are at most 1.0, every
\* score returned by score_action, score_managed_policy, analyze_actions and
\* the permission-set analysis is in 0..10.
C17_ScoresInRange ==
  ConfigInRange(config) =>
    /\ (call.op \in {"score_action", "score_managed_policy"} /\ Returned(call)
        /\ call.out.exc = "none") => ScoresInRange(call.out)
    /\ ActionsCall => ScoresInRange(call.out.scores)
    /\ AnalyzeCall => ScoresInRange(call.out.scores)

\* An analysis that merged two managed policies and weighted inline actions
\* under weights below 1.0
C17_Witness ==
  /\ ConfigInRange(config)
  /\ config.config["weights"]["service_specific"] = 7
  /\ AnalyzeCall
  /\ ~call.hit
  /\ Len(_get_managed_policies(call.managed_response)) = 2
  /\ Len(InlineActionsOf(call)) > 0
  /\ call.out.scores.admin_score = 10

\* The response with a fetch error replaced by "nothing of that kind"
OrNothing(response, nothing) ==
  IF Raised(response) THEN Fetched(nothing) ELSE response

\* C18: a fetch error is treated as "no policies available" of that kind: when
\* listing the managed policies fails the result is that of an empty list with
\* the same inline policy, and when fetching the inline policy fails with any
\* error the result is that of the same managed policies with no inline policy.
C18_FetchErrorIsNoPolicies ==
  (AnalyzeCall /\ ~call.hit) =>
    call.out = AnalyzeMiss(config, OrNothing(call.managed_response, <<>>),
                           OrNothing(call.inline_response, PyNone)).result

\* The try block of the uncached call c ended in the `except Exception` branch
AnalysisFailed(c) ==
  ~AnalyzeMiss(config, c.managed_response, c.inline_response).stored

\* C19: when the analysis of a permission set fails with an unexpected
\* exception the call returns UNKNOWN with all-zero scores (risk level MINIMAL)
\* and a non-empty justification explaining that the analysis failed.
C19_FailureIsExplained ==
  (AnalyzeCall /\ ~call.hit /\ AnalysisFailed(call)) =>
    /\ call.out.access_level = "UNKNOWN"
    /\ call.out.scores.read_score = 0
    /\ call.out.scores.write_score = 0
    /\ call.out.scores.admin_score = 0
    /\ get_risk_level(call.out.scores) = "MINIMAL"
    /\ Len(call.out.scores.justification) > 0

\* severity x weight (in tenths) rounded to the nearest integer
RoundNearest(base_score, weight) == (base_score * weight + 5) \div 10

\* C20: the weighted score of an action resolved to a tier is severity(tier) x
\* weight (service-specific or pattern-based) rounded to the nearest integer;
\* severity 8 with weight 0.7 gives 6.
C20_WeightedScoreIsRounded ==
  ResolvedToTier =>
    (IF call.out.risk_level = "medium" THEN call.out.write_score
     ELSE call.out.read_score)
      \in {RoundNearest(
             config.config["scoring_rules"]["risk_levels"][call.out.risk_level],
             config.config["weights"][k]) :
             k \in {"service_specific", "pattern_based"}}

\* The actions of the list that score_action resolves to critical or high, in
\* the order of the list
RECURSIVE CriticalOrHigh(_, _)
CriticalOrHigh(self, actions) ==
  IF Len(actions) = 0 THEN <<>>
  ELSE (IF score_action(self, actions[1]).risk_level \in {"critical", "high"}
        THEN <<actions[1]>> ELSE <<>>)
         \o CriticalOrHigh(self, Tail(actions))

\* C21: the high-risk list returned by analyze_actions holds exactly the actions
\* of the input whose resolved tier is critical or high, in input order and with
\* the same multiplicity; actions resolved to medium, low or unknown are not in
\* it.
C21_HighRiskList ==
  ActionsCall =>
    /\ call.out.high_risk_actions = CriticalOrHigh(config, call.actions)
    /\ \A i \in DOMAIN call.out.high_risk_actions :
         score_action(config, call.out.high_risk_actions[i]).risk_level
           \notin {"medium", "low", "unknown"}

\* The same high-tier action given twice is listed twice
C21_Witness ==
  /\ ActionsCall
  /\ call.actions = <<PyStr(ActS3DeleteBucket), PyStr(ActS3DeleteBucket)>>
  /\ score_action(config, PyStr(ActS3DeleteBucket)).risk_level = "high"
  /\ Len(call.out.high_risk_actions) = 2

\* score_action reached the pattern rules for the action of the call
PatternCall ==
  /\ call.op = "score_action"
  /\ Returned(call)
  /\ call.out.exc = "none"
  /\ call.out.justification[1] \in {"Pattern-based scoring", "Unknown action"}

\* Some pattern listed for the tier in the rulebook matches the action
TierMatches(self, tier, action) ==
  \E p \in DOMAIN Get(Get(self.config, "patterns", EmptyDict), tier, <<>>) :
    re_match(re_compile(self.config["patterns"][tier][p]), action)

RECURSIVE Reverse(_)
Reverse(seq) ==
  IF Len(seq) = 0 THEN <<>> ELSE Append(Reverse(Tail(seq)), Head(seq))

\* The configuration with the patterns of every tier listed in reverse order
ReversedPatterns(self) ==
  [self EXCEPT !["_pattern_cache"] =
     [tier \in DOMAIN self._pattern_cache |-> Reverse(self._pattern_cache[tier])]]

\* C22: an action scored by patterns gets the first of critical, high, medium,
\* low that has a matching pattern (critical when both a critical and a low
\* pattern match), "unknown" when none has, and the same result when the
\* patterns of each tier are listed in another order.
C22_PatternOrder ==
  PatternCall =>
    LET a == call.action.s
        tier == call.out.risk_level
    IN /\ TierMatches(config, "critical", a) => tier = "critical"
       /\ (~TierMatches(config, "critical", a) /\ TierMatches(config, "high", a))
            => tier = "high"
       /\ (/\ ~TierMatches(config, "critical", a)
           /\ ~TierMatches(config, "high", a)
           /\ TierMatches(config, "medium", a)) => tier = "medium"
       /\ (/\ \A t \in {"critical", "high", "medium"} : ~TierMatches(config, t, a)
           /\ TierMatches(config, "low", a)) => tier = "low"
       /\ (\A t \in {"critical", "high", "medium", "low"} :
             ~TierMatches(config, t, a)) => tier = "unknown"
       /\ score_action(ReversedPatterns(config), call.action) = call.out

\* An action matching a critical and a low pattern, scored critical
C22_Witness ==
  /\ PatternCall
  /\ TierMatches(config, "critical", call.action.s)
  /\ TierMatches(config, "low", call.action.s)
  /\ call.out.risk_level = "critical"
  /\ call.out.admin_score = 7

\* The action is listed in one of the legacy per-tier lists of its service
InLegacyList(self, action) ==
  /\ FirstIndex(action, ":") # 0
  /\ ServicePrefix(action) \in DOMAIN Get(self.config, "services", EmptyDict)
  /\ \E k \in {"critical_actions", "high_risk_actions", "medium_risk_actions",
                "read_only_actions"} :
       \E i \in DOMAIN Get(self.config["services"][ServicePrefix(action)], k, <<>>) :
         self.config["services"][ServicePrefix(action)][k][i] = action

\* The action is no special action, has no entry of its service and matches no
\* pattern
MatchesNothing(self, action) ==
  /\ action.t = "str"
  /\ action.s \notin DOMAIN Get(self.config, "special_actions", EmptyDict)
  /\ ~HasExactEntry(self, action)
  /\ ~InLegacyList(self, action.s)
  /\ \A tier \in {"critical", "high", "medium", "low"} :
       ~TierMatches(self, tier, action.s)

\* C23: an action that matches no special-action key, no entry of its service
\* and no pattern is scored with the configured default triple ((2,5,0) under the
\* built-in configuration, the one without services) and tier "unknown", with a
\* justification saying that the default assessment was used; so is every such
\* action without a colon or of an unconfigured service.
C23_DefaultsWhenNothingMatches ==
  (/\ call.op = "score_action"
   /\ Returned(call)
   /\ MatchesNothing(config, call.action)) =>
    LET defaults == config.config["scoring_rules"]["defaults"]
    IN /\ call.out.exc = "none"
       /\ call.out.read_score = defaults.read_score
       /\ call.out.write_score = defaults.write_score
       /\ call.out.admin_score = defaults.admin_score
       /\ Get(config.config, "services", EmptyDict) = EmptyDict =>
            /\ call.out.read_score = 2
            /\ call.out.write_score = 5
            /\ call.out.admin_score = 0
       /\ call.out.risk_level = "unknown"
       /\ call.out.justification =
            <<"Unknown action", ": ", "'">> \o call.action.s
              \o <<"'", " - using default risk assessment">>

\* An action without a colon that no pattern of the rulebook matches, and an
\* action of an unconfigured service under the built-in configuration
C23_Witness ==
  /\ call.op = "score_action"
  /\ Returned(call)
  /\ MatchesNothing(config, call.action)
  /\ \/ /\ call.action = PyStr(ActNoColon)
        /\ Get(config.config, "services", EmptyDict) # EmptyDict
     \/ /\ call.action = PyStr(ActEc2Delete)
        /\ Get(config.config, "services", EmptyDict) = EmptyDict
  /\ call.out.risk_level = "unknown"
  /\ call.out.write_score = 5

\* The entries of the managed-policy table whose key is the name
ExactPolicy(self, policy_name) ==
  {i \in DOMAIN self.config["managed_policies"] :
     self.config["managed_policies"][i].key = policy_name}

\* The legacy tier buckets that list the name itself
BucketsOf(self, policy_name) ==
  {i \in DOMAIN self.config["managed_policies"] :
     /\ self.config["managed_policies"][i].val.t = "list"
     /\ \E p \in DOMAIN self.config["managed_policies"][i].val.items :
          self.config["managed_policies"][i].val.items[p] = policy_name}

\* C24: score_managed_policy returns the explicit triple of an exact name match
\* in the managed-policy table; otherwise, for a name that is a member of a
\* legacy tier bucket of severity s, (s,s,s) for critical, (s,s,s div 2) for
\* high, (s div 2,s,0) for medium and (s,0,0) for low; otherwise the default
\* triple, also for a name that only contains a bucket member as a substring.
C24_ManagedPolicyOrder ==
  (call.op = "score_managed_policy" /\ Returned(call)) =>
    LET table == config.config["managed_policies"]
        exact == ExactPolicy(config, call.policy_name)
        buckets == BucketsOf(config, call.policy_name)
        defaults == config.config["scoring_rules"]["defaults"]
        tier == table[CHOOSE i \in buckets : \A j \in buckets : i <= j].key[1]
        s == config.config["scoring_rules"]["risk_levels"][tier]
        out == <<call.out.read_score, call.out.write_score, call.out.admin_score>>
    IN /\ call.out.exc = "none"
       /\ IF exact # {}
          THEN \E i \in exact :
                 /\ table[i].val.t = "dict"
                 /\ \A k \in DOMAIN table[i].val.d : call.out[k] = table[i].val.d[k]
          ELSE IF buckets # {}
          THEN /\ tier = "critical" => out = <<s, s, s>>
               /\ tier = "high" => out = <<s, s, s \div 2>>
               /\ tier = "medium" => out = <<s \div 2, s, 0>>
               /\ tier = "low" => out = <<s, 0, 0>>
          ELSE out = <<defaults.read_score, defaults.write_score,
                       defaults.admin_score>>

(***************************************************************************)
(* SpecCache: one analyzer analysing two permission sets any number of     *)
(* times while their policies are changed in the identity store.           *)
(***************************************************************************)
CacheArns == {"ps-1", "ps-2"}

\* What is attached to a permission set, before or after a change
CacheProfiles ==
  {[managed |-> <<>>, inline |-> PyNone],
   [managed |-> <<ManagedPolicy(<<"AdministratorAccess">>)>>, inline |-> PyNone],
   [managed |-> <<ManagedPolicy(<<"ReadOnlyAccess">>)>>,
    inline |-> PolicyDoc(Statement(Allow, PyStr(ActS3Get)))],
   [managed |-> <<>>,
    inline |-> PolicyDoc(PyList(<<Statement(Allow, PyStr(ActStar))>>))]}

\* An administrator changes the policies of a permission set; the analyzer is
\* not told
PoliciesChange ==
  /\ \E arn \in DOMAIN backend, profile \in CacheProfiles :
       /\ backend[arn] # profile
       /\ backend' = [backend EXCEPT ![arn] = profile]
  /\ UNCHANGED <<config, cache, call, returned>>

InitCache ==
  /\ config \in {PermissionScoringConfig(source) : source \in ScoringSources}
  /\ cache = <<>>
  /\ backend \in [CacheArns -> CacheProfiles]
  /\ returned = [arn \in CacheArns |-> {}]
  /\ call = NoCall

NextCache == AnalyzePermissionSet \/ PoliciesChange

SpecCache == InitCache /\ [][NextCache]_vars

\* What an uncached analysis of the permission set would return now
Fresh(arn) ==
  AnalyzeMiss(config, Fetched(backend[arn].managed),
              Fetched(backend[arn].inline)).result

\* C25: once a result is stored for an ARN no later step changes or removes
\* that cache entry (a call for another ARN included), and a later call with
\* that ARN returns the stored tuple without fetching any policy, also when the
\* policies have changed.
C25_CacheNeverInvalidated ==
  [][\A arn \in DOMAIN cache :
       /\ arn \in DOMAIN cache'
       /\ cache'[arn] = cache[arn]
       /\ (call' # call /\ call'.op = "analyze_permission_set" /\ call'.arn = arn)
            => /\ call'.hit
               /\ call'.out = cache[arn]
               /\ "managed_response" \notin DOMAIN call'
               /\ "inline_response" \notin DOMAIN call']_vars

\* A cache hit that returned the stored result of one permission set after its
\* policies were changed, while the other permission set is cached as well
C25_Witness ==
  /\ AnalyzeCall
  /\ call.hit
  /\ DOMAIN cache = CacheArns
  /\ call.out = cache[call.arn]
  /\ call.out # Fresh(call.arn)
  /\ call.out.access_level = "FULL_ADMIN"
  /\ Fresh(call.arn).access_level = "UNKNOWN"

(***************************************************************************)
(* SpecLevels: the permission-set analysis under rulebooks that include    *)
(* one scoring a managed policy with limited write access and no read.     *)
(***************************************************************************)
\* FullDoc with the managed policy Custom scored read=0, write=3, admin=0
LimitedWriteDoc ==
  [FullDoc EXCEPT !["managed_policies"] =
     Append(@, Item(<<"Custom">>, PyDict(Triple(0, 3, 0))))]

LevelSources ==
  ScoringSources \cup {[state |-> "doc", doc |-> PyDict(LimitedWriteDoc)]}

InitLevels ==
  /\ config \in {PermissionScoringConfig(source) : source \in LevelSources}
  /\ cache = <<>>
  /\ backend \in [Arns -> Profiles]
  /\ returned = [arn \in Arns |-> {}]
  /\ call = NoCall

NextLevels == AnalyzePermissionSet

SpecLevels == InitLevels /\ [][NextLevels]_vars

\* C26 as stated: FULL_ADMIN implies risk level HIGH or CRITICAL, READ_WRITE
\* implies MEDIUM or HIGH, READ_ONLY implies LOW or MINIMAL, and UNKNOWN implies
\* scores (0,0,0) and risk level MINIMAL.
C26_UnknownIsAllZero ==
  AnalyzeCall =>
    LET level == call.out.access_level
        risk == get_risk_level(call.out.scores)
    IN /\ level = "FULL_ADMIN" => risk \in {"HIGH", "CRITICAL"}
       /\ level = "READ_WRITE" => risk \in {"MEDIUM", "HIGH"}
       /\ level = "READ_ONLY" => risk \in {"LOW", "MINIMAL"}
       /\ level = "UNKNOWN" =>
            /\ call.out.scores.read_score = 0
            /\ call.out.scores.write_score = 0
            /\ call.out.scores.admin_score = 0
            /\ risk = "MINIMAL"

\* C26 amended: FULL_ADMIN implies risk level HIGH or CRITICAL, READ_WRITE
\* implies MEDIUM or HIGH, READ_ONLY implies LOW or MINIMAL, and UNKNOWN implies
\* read=0, write<5, admin<5 and risk level MINIMAL; the level is never
\* NO_ACCESS.
C26_LevelMatchesRisk ==
  AnalyzeCall =>
    LET level == call.out.access_level
        risk == get_risk_level(call.out.scores)
    IN /\ level \in {"FULL_ADMIN", "READ_WRITE", "READ_ONLY", "UNKNOWN"}
       /\ level = "FULL_ADMIN" => risk \in {"HIGH", "CRITICAL"}
       /\ level = "READ_WRITE" => risk \in {"MEDIUM", "HIGH"}
       /\ level = "READ_ONLY" => risk \in {"LOW", "MINIMAL"}
       /\ level = "UNKNOWN" =>
            /\ call.out.scores.read_score = 0
            /\ call.out.scores.write_score < 5
            /\ call.out.scores.admin_score < 5
            /\ risk = "MINIMAL"

\* An analysis that did not fail and returned UNKNOWN beside a write score of 3
C26_Witness ==
  /\ AnalyzeCall
  /\ ~call.hit
  /\ ~AnalysisFailed(call)
  /\ call.out.access_level = "UNKNOWN"
  /\ call.out.scores.read_score = 0
  /\ call.out.scores.write_score = 3
  /\ get_risk_level(call.out.scores) = "MINIMAL"

\* The justification begins "Full administrative access via AdministratorAccess
\* managed policy"
SaysAdministratorAccess(justification) ==
  /\ Len(justification) >= 3
  /\ SubSeq(justification, 1, 3) =
       <<"Full administrative access via ", "AdministratorAccess",
         " managed policy">>

\* C27: whenever the analysis returns a justification beginning "Full
\* administrative access via AdministratorAccess managed policy", a managed
\* policy named AdministratorAccess is attached and the AccessLevel returned is
\* FULL_ADMIN, for every configuration and every managed-policy name.
C27_JustificationMatchesLevel ==
  (/\ AnalyzeCall
   /\ ~call.hit
   /\ SaysAdministratorAccess(call.out.scores.justification)) =>
    /\ \E i \in DOMAIN _get_managed_policies(call.managed_response) :
         _get_managed_policies(call.managed_response)[i].Name
           = <<"AdministratorAccess">>
    /\ call.out.access_level = "FULL_ADMIN"

\* C28: whenever analyze_actions returns a non-empty high-risk list the risk
\* level of the merged scores is HIGH or CRITICAL, and CRITICAL whenever the
\* list holds an action of tier critical, for actions resolved through service
\* tables and through patterns alike.
C28_HighRiskMeansHighLevel ==
  ActionsCall =>
    /\ Len(call.out.high_risk_actions) > 0 =>
         get_risk_level(call.out.scores) \in {"HIGH", "CRITICAL"}
    /\ (\E i \in DOMAIN call.out.high_risk_actions :
          score_action(config, call.out.high_risk_actions[i]).risk_level
            = "critical") =>
         get_risk_level(call.out.scores) = "CRITICAL"

(***************************************************************************)
(* data_collector.py: DataCollector.get_assignments.  SpecAssignments: the *)
(* collector lists the assignments of every (account, permission set)      *)
(* pair; list_account_assignments answers each pair with a sequence of     *)
(* pages, a page being a list of assignments or an error raised while it   *)
(* is fetched.  backend holds the pages, cache is self._assignments_cache. *)
(***************************************************************************)
\* The keys of get_accounts() and of get_permission_sets()
AccountIds == {"111111111111"}
PermissionSetArns == {"ps-1", "ps-2"}

Pairs == AccountIds \X PermissionSetArns

Page(account_assignments) ==
  [exc |-> "none", AccountAssignments |-> account_assignments]

\* What the paginator yields for one page
PageResponses ==
  {Page(<<>>), Page(<<"user-1">>), Page(<<"group-1">>),
   Page(<<"user-1", "group-1">>), Raise("ClientError")}

\* One iteration of `for page in paginator.paginate(...)` for one key: prev is
\* the entry of the key in `assignments` before the iteration
PageStep(prev, page) ==
  IF Raised(page) THEN [prev EXCEPT !.exc = page.exc]
  ELSE IF Len(page.AccountAssignments) > 0
  THEN [exc |-> "none", present |-> TRUE, value |-> page.AccountAssignments]
  ELSE prev

\* The entry of one key after the first n pages; an exception ends the loop
RECURSIVE PagesLoop(_, _)
PagesLoop(pages, n) ==
  IF n = 0 THEN [exc |-> "none", present |-> FALSE, value |-> <<>>]
  ELSE LET prev == PagesLoop(pages, n - 1)
       IN IF Raised(prev) THEN prev ELSE PageStep(prev, pages[n])

\* The dictionary built by get_assignments from the pages of every pair
get_assignments(paginate) ==
  [key \in {k \in DOMAIN paginate :
              PagesLoop(paginate[k], Len(paginate[k])).present} |->
     PagesLoop(paginate[key], Len(paginate[key])).value]

\* DataCollector.get_assignments()
GetAssignments ==
  /\ cache.t \in {"NoneType", "dict"}
  /\ call' = [op |-> "get_assignments", hit |-> cache.t # "NoneType",
              out |-> IF cache.t # "NoneType" THEN cache
                      ELSE PyDict(get_assignments(backend))]
  /\ cache' = IF cache.t # "NoneType" THEN cache
              ELSE PyDict(get_assignments(backend))
  /\ UNCHANGED <<config, backend, returned>>

InitAssignments ==
  /\ config = Unbuilt
  /\ cache = PyNone
  /\ backend \in [Pairs -> BoundedSeq(PageResponses, MaxPages)]
  /\ returned = <<>>
  /\ call = NoCall

NextAssignments == GetAssignments

SpecAssignments == InitAssignments /\ [][NextAssignments]_vars

\* The assignments of all the pages, in page order
RECURSIVE AllPages(_)
AllPages(pages) ==
  IF Len(pages) = 0 THEN <<>>
  ELSE Head(pages).AccountAssignments \o AllPages(Tail(pages))

\* C29: for every (account, permission set) pair whose pages were all fetched,
\* the list get_assignments stores for the pair holds every assignment of every
\* page, in page order.
C29_PaginationIsComplete ==
  call.op = "get_assignments" =>
    \A key \in Pairs :
      (\A i \in DOMAIN backend[key] : ~Raised(backend[key][i])) =>
        Get(call.out.d, key, <<>>) = AllPages(backend[key])

\* The action string with its service prefix in lower case
LowerPrefix(action) ==
  ServicePrefix(action)
    \o SubSeq(action, FirstIndex(action, ":"), Len(action))

\* C30: an action whose service prefix is written in another letter case than
\* in the action table ("S3:GetObject" for "s3:GetObject") resolves to the tier
\* and the scores of the exact entry of the action in the table of its service.
C30_ServicePrefixCaseInsensitive ==
  (/\ call.op = "score_action"
   /\ Returned(call)
   /\ call.action.t = "str"
   /\ FirstIndex(call.action.s, ":") # 0
   /\ HasExactEntry(config, PyStr(LowerPrefix(call.action.s)))
   /\ IsTier(Get(ExactEntry(config, PyStr(LowerPrefix(call.action.s))),
                 "risk_level", "medium"))) =>
    LET same == score_action(config, PyStr(LowerPrefix(call.action.s)))
    IN /\ call.out.exc = "none"
       /\ call.out.risk_level = same.risk_level
       /\ call.out.read_score = same.read_score
       /\ call.out.write_score = same.write_score
       /\ call.out.admin_score = same.admin_score

====
